---- MODULE Spec2Model ----
(***************************************************************************)
(* Model of colormap_to_pal.py: export_cmap_as_pal_txt samples a registered *)
(* colormap at nlevels positions, pairs the samples with evenly spaced      *)
(* levels and writes a PAL text file.                                       *)
(*                                                                          *)
(* Floating point.  Python floats are binary floating-point numbers.  The   *)
(* model keeps the format and scales it down: a float is an integer number  *)
(* of grid units of 2^-GridBits (the spacing of the subnormal range) with   *)
(* at most Precision significant bits, and every arithmetic operation       *)
(* rounds its exact result to the nearest such number, ties to even.        *)
(*                                                                          *)
(* Files.  A file is a sequence of lines; a line is a record of the fields  *)
(* the format string prints, each already converted as the format converts  *)
(* it.  Offsets in a file are counted in lines.                             *)
(***************************************************************************)
EXTENDS Integers, Sequences, FiniteSets, TLC

VARIABLES args, pc, exc, levels, step, cmap, rgb_triplets, f, k, fs

vars == <<args, pc, exc, levels, step, cmap, rgb_triplets, f, k, fs>>

----------------------------------------------------------------------------
(* Bounds of the model *)

\* significant bits of a float (53 for a Python float)
Precision == 8

\* a grid unit is 2^-GridBits (2^-1074 for a Python float)
GridBits == 7

\* largest nlevels tried by a call
MaxLevels == 4

----------------------------------------------------------------------------
(* Floating-point arithmetic *)

RECURSIVE Pow2(_)
Pow2(n) == IF n = 0 THEN 1 ELSE 2 * Pow2(n - 1)

\* 1.0 in grid units
One == Pow2(GridBits)

Abs(x) == IF x < 0 THEN 0 - x ELSE x

Sign(x) == IF x < 0 THEN 0 - 1 ELSE 1

\* num/den >= 0 rounded to the nearest integer, ties to the even one
RoundHalfEven(num, den) ==
    LET q == num \div den
        r == num % den
    IN  IF 2 * r < den THEN q
        ELSE IF 2 * r > den THEN q + 1
        ELSE IF q % 2 = 0 THEN q ELSE q + 1

\* the spacing of the floats around num/den >= 0: the least power of two s
\* with num/den < 2^Precision * s
RECURSIVE Spacing(_, _, _)
Spacing(num, den, s) ==
    IF num < den * Pow2(Precision) * s THEN s ELSE Spacing(num, den, 2 * s)

\* the float nearest to num/den grid units (den > 0)
RoundRat(num, den) ==
    LET a == Abs(num)
        s == Spacing(a, den, 1)
    IN  Sign(num) * s * RoundHalfEven(a, den * s)

IsFloat(v) == RoundRat(v, 1) = v

FromInt(n) == RoundRat(n * One, 1)

FAdd(a, b) == RoundRat(a + b, 1)

FSub(a, b) == RoundRat(a - b, 1)

FMul(a, b) == RoundRat(a * b, One)

\* b # 0
FDiv(a, b) == RoundRat(Sign(b) * a * One, Abs(b))

\* a slip: the nearest integer in place of the truncation
intRounded(x) == Sign(x) * RoundHalfEven(Abs(x), One)

\* int(x): truncation toward zero
int(x) == Sign(x) * (Abs(x) \div One)

\* '%5.2f' % x: x rounded to hundredths (the printed number, in hundredths;
\* the padding to five characters and the sign of a negative zero are not kept)
Fmt2(x) == Sign(x) * RoundHalfEven(Abs(x) * 100, One)

\* str(step): Python prints the shortest text that reads back as the same
\* float, and "nan" for a NaN, so the text determines the float and back
Str(x) == IF x.nan THEN [text |-> "nan"] ELSE [text |-> "float", val |-> x.val]

NaN == [nan |-> TRUE, val |-> 0]

Num(v) == [nan |-> FALSE, val |-> v]

----------------------------------------------------------------------------
(* np.linspace(start, stop, num, retstep = True) *)

\* element i (from 0) of the samples, before the last is set to stop
Sample(start, stop, num, i) ==
    LET div   == num - 1
        delta == FSub(stop, start)
        stp   == FDiv(delta, FromInt(div))
        y     == IF div > 0
                 THEN IF stp = 0
                      THEN FMul(FDiv(FromInt(i), FromInt(div)), delta)
                      ELSE FMul(FromInt(i), stp)
                 ELSE FMul(FromInt(i), delta)
    IN  FAdd(y, start)

\* a slip: the range divided by the number of samples, not of intervals
RetStepPerSample(start, stop, num) ==
    IF num - 1 > 0 THEN Num(FDiv(FSub(stop, start), FromInt(num))) ELSE NaN

\* the returned step: delta / div, NaN when there is no interval
RetStep(start, stop, num) ==
    IF num - 1 > 0 THEN Num(FDiv(FSub(stop, start), FromInt(num - 1))) ELSE NaN

\* a negative num raises ValueError; otherwise (levels, step)
linspace(start, stop, num) ==
    IF num < 0
    THEN [raised |-> TRUE, levels |-> <<>>, step |-> NaN]
    ELSE [raised |-> FALSE,
          levels |-> [j \in 1..num |->
                         IF num > 1 /\ j = num THEN stop
                         ELSE Sample(start, stop, num, j - 1)],
          step   |-> RetStep(start, stop, num)]

----------------------------------------------------------------------------
(* mpl.colormaps: the registered colormaps and what they return *)

Registered == {"Spectral", "Spectral_r"}

\* stand-ins for the library's colour tables: RGBA with every channel in [0, 1]
Spectral(t) == <<t, FSub(One, t), FDiv(t, FromInt(2)), One>>

\* cmap(t); a colormap named X_r is X reversed
Sampled(name, t) ==
    IF name = "Spectral" THEN Spectral(t) ELSE Spectral(FSub(One, t))

\* a slip: a name that is not registered falls back to a registered colormap
colormapsWithFallback(name) ==
    [raised |-> FALSE, cmap |-> IF name \in Registered THEN name ELSE "Spectral"]

\* mpl.colormaps[colormap]: KeyError for a name that is not registered
colormaps(name) ==
    IF name \in Registered
    THEN [raised |-> FALSE, cmap |-> name]
    ELSE [raised |-> TRUE, cmap |-> name]

\* the tuple appended for index i (from 0): the level and the three channels
Triplet(lev, name, nlevels, i) ==
    LET rgb == SubSeq(Sampled(name, FDiv(FromInt(i), FromInt(nlevels - 1))), 1, 3)
    IN  <<lev[i + 1],
          int(FMul(rgb[1], FromInt(255))),
          int(FMul(rgb[2], FromInt(255))),
          int(FMul(rgb[3], FromInt(255)))>>

----------------------------------------------------------------------------
(* The lines of a PAL file *)

ProductLine(field) == [kind |-> "Product", text |-> field]

UnitsLine(units) == [kind |-> "Units", text |-> units]

ScaleLine == [kind |-> "Scale", text |-> "100"]

StepLine(stp) == [kind |-> "Step", val |-> Str(stp)]

\* a slip: the Step line whatever the field
HeaderLineAlwaysStep(field, stp) == StepLine(stp)

\* the header line that depends on the field
HeaderLine(field, stp) == IF field = "CC" THEN ScaleLine ELSE StepLine(stp)

BlankLine == [kind |-> "Blank"]

ColorLine(triplet) ==
    [kind |-> "Color", level |-> Fmt2(triplet[1]),
     r |-> triplet[2], g |-> triplet[3], b |-> triplet[4], alpha |-> 255]

UniqueLine ==
    [kind |-> "Unique", value |-> 800, label |-> "RF", r |-> 119, g |-> 0, b |-> 125]

\* s[::-1]
Reversed(s) == [j \in 1..Len(s) |-> s[Len(s) + 1 - j]]

----------------------------------------------------------------------------
(* Files *)

\* a slip: the name of the default colormap in place of the one given
PathOfDefaultColormap(colormap, field) == "./" \o "Spectral" \o "_" \o field \o ".pal"

Path(colormap, field) == "./" \o colormap \o "_" \o field \o ".pal"

NoFile == [exists |-> FALSE, data |-> <<>>]

\* open(path, "w"): the file exists and is empty
Truncated(file) == [exists |-> TRUE, data |-> <<>>]

\* the buffer written at offset 0 of the file
Flushed(file, buf) ==
    [exists |-> TRUE,
     data   |-> buf \o SubSeq(file.data, Len(buf) + 1, Len(file.data))]

----------------------------------------------------------------------------
(* The calls *)

\* floats given as min and max: -1.0, 0.0, one grid unit, 1.0, 5.0
RangeEnds == {v \in {0 - One, 0, 1, One, 5 * One} : IsFloat(v)}

\* the calls of a script that exports one palette
Calls ==
    [colormap : Registered \cup {"NoSuchMap"},
     field    : {"BR", "r_BR", "CC"},
     units    : {"DBZ"},
     min      : RangeEnds,
     max      : RangeEnds,
     nlevels  : (0 - 1)..MaxLevels,
     unique   : BOOLEAN]

\* the calls of two scripts that run at the same time
ConcurrentCalls ==
    [colormap : Registered,
     field    : {"BR", "r_BR", "CC"},
     units    : {"DBZ", "KTS"},
     min      : {0},
     max      : {One},
     nlevels  : {2},
     unique   : BOOLEAN]

\* the names in the working directory that the calls can give a file
Paths ==
    {"./" \o c \o "_" \o fl \o ".pal" :
        c \in Registered \cup {"NoSuchMap"}, fl \in {"BR", "r_BR", "CC"}}

\* what the directory holds before the calls: a palette written earlier
OldData ==
    <<ProductLine("BR"), UnitsLine("DBZ"), StepLine(Num(One)), BlankLine>>
    \o [j \in 1..(MaxLevels + 2) |-> ColorLine(<<FromInt(j), 0, 0, 0>>)]
    \o <<UniqueLine>>

OldFile == [exists |-> TRUE, data |-> OldData]

InitOf(callers, calls) ==
    /\ args \in [callers -> calls]
    /\ pc = [p \in callers |-> "linspace"]
    /\ exc = [p \in callers |-> "none"]
    /\ levels = [p \in callers |-> <<>>]
    /\ step = [p \in callers |-> NaN]
    /\ cmap = [p \in callers |-> "none"]
    /\ rgb_triplets = [p \in callers |-> <<>>]
    /\ f = [p \in callers |-> [name |-> "none", buf |-> <<>>]]
    /\ k = [p \in callers |-> 0]
    /\ fs \in {[n \in Paths |-> NoFile], [n \in Paths |-> OldFile]}

Init == InitOf({1}, Calls)

InitConcurrent == InitOf({1, 2}, ConcurrentCalls)

Raise(p, e) ==
    /\ exc' = [exc EXCEPT ![p] = e]
    /\ pc' = [pc EXCEPT ![p] = "done"]

\* line 26
Linspace(p) ==
    /\ pc[p] = "linspace"
    /\ LET ls == linspace(args[p].min, args[p].max, args[p].nlevels)
       IN  IF ls.raised
           THEN Raise(p, "ValueError") /\ UNCHANGED <<levels, step>>
           ELSE /\ levels' = [levels EXCEPT ![p] = ls.levels]
                /\ step' = [step EXCEPT ![p] = ls.step]
                /\ pc' = [pc EXCEPT ![p] = "lookup"]
                /\ UNCHANGED exc
    /\ UNCHANGED <<args, cmap, rgb_triplets, f, k, fs>>

\* line 27
Lookup(p) ==
    /\ pc[p] = "lookup"
    /\ LET found == colormaps(args[p].colormap)
       IN  IF found.raised
           THEN Raise(p, "KeyError") /\ UNCHANGED cmap
           ELSE /\ cmap' = [cmap EXCEPT ![p] = found.cmap]
                /\ pc' = [pc EXCEPT ![p] = "sample"]
                /\ UNCHANGED exc
    /\ UNCHANGED <<args, levels, step, rgb_triplets, f, k, fs>>

\* lines 29-32: the first pass of the loop divides by nlevels - 1
SampleLoop(p) ==
    /\ pc[p] = "sample"
    /\ LET n == args[p].nlevels
       IN  IF n >= 1 /\ n - 1 = 0
           THEN Raise(p, "ZeroDivisionError") /\ UNCHANGED rgb_triplets
           ELSE /\ rgb_triplets' = [rgb_triplets EXCEPT ![p] =
                       [j \in 1..n |-> Triplet(levels[p], cmap[p], n, j - 1)]]
                /\ pc' = [pc EXCEPT ![p] = "open"]
                /\ UNCHANGED exc
    /\ UNCHANGED <<args, levels, step, cmap, f, k, fs>>

\* line 34
Open(p) ==
    /\ pc[p] = "open"
    /\ LET name == Path(args[p].colormap, args[p].field)
       IN  /\ fs' = [fs EXCEPT ![name] = Truncated(fs[name])]
           /\ f' = [f EXCEPT ![p] = [name |-> name, buf |-> <<>>]]
    /\ pc' = [pc EXCEPT ![p] = "product"]
    /\ UNCHANGED <<args, exc, levels, step, cmap, rgb_triplets, k>>

\* f.write: the text goes to the buffer of the file object
Write(p, line, next) ==
    /\ f' = [f EXCEPT ![p].buf = Append(@, line)]
    /\ pc' = [pc EXCEPT ![p] = next]
    /\ UNCHANGED <<args, exc, levels, step, cmap, rgb_triplets, fs>>

\* line 35
WriteProduct(p) ==
    /\ pc[p] = "product"
    /\ Write(p, ProductLine(args[p].field), "units")
    /\ UNCHANGED k

\* line 36
WriteUnits(p) ==
    /\ pc[p] = "units"
    /\ Write(p, UnitsLine(args[p].units), "scale_step")
    /\ UNCHANGED k

\* lines 39-42
WriteScaleOrStep(p) ==
    /\ pc[p] = "scale_step"
    /\ Write(p, HeaderLine(args[p].field, step[p]), "blank")
    /\ UNCHANGED k

\* line 43
WriteBlank(p) ==
    /\ pc[p] = "blank"
    /\ Write(p, BlankLine, "colors")
    /\ k' = [k EXCEPT ![p] = 1]

\* lines 45-46: one pass of the loop
WriteColor(p) ==
    /\ pc[p] = "colors"
    /\ k[p] <= Len(rgb_triplets[p])
    /\ Write(p, ColorLine(Reversed(rgb_triplets[p])[k[p]]), "colors")
    /\ k' = [k EXCEPT ![p] = @ + 1]

\* line 45: the loop is over
EndColors(p) ==
    /\ pc[p] = "colors"
    /\ k[p] > Len(rgb_triplets[p])
    /\ pc' = [pc EXCEPT ![p] = "unique"]
    /\ UNCHANGED <<args, exc, levels, step, cmap, rgb_triplets, f, k, fs>>

\* lines 47-48
WriteUnique(p) ==
    /\ pc[p] = "unique"
    /\ IF args[p].unique
       THEN Write(p, UniqueLine, "close")
       ELSE /\ pc' = [pc EXCEPT ![p] = "close"]
            /\ UNCHANGED <<args, exc, levels, step, cmap, rgb_triplets, f, fs>>
    /\ UNCHANGED k

\* the end of the with block (line 48): the buffer, smaller than the
\* buffer size of a file object, reaches the file now, in one write at offset 0
Close(p) ==
    /\ pc[p] = "close"
    /\ fs' = [fs EXCEPT ![f[p].name] = Flushed(@, f[p].buf)]
    /\ pc' = [pc EXCEPT ![p] = "done"]
    /\ UNCHANGED <<args, exc, levels, step, cmap, rgb_triplets, f, k>>

Next ==
    \E p \in DOMAIN pc :
        \/ Linspace(p)
        \/ Lookup(p)
        \/ SampleLoop(p)
        \/ Open(p)
        \/ WriteProduct(p)
        \/ WriteUnits(p)
        \/ WriteScaleOrStep(p)
        \/ WriteBlank(p)
        \/ WriteColor(p)
        \/ EndColors(p)
        \/ WriteUnique(p)
        \/ Close(p)

\* one script
Spec == Init /\ [][Next]_vars

\* two scripts at the same time
SpecConcurrent == InitConcurrent /\ [][Next]_vars

----------------------------------------------------------------------------
(* What the claims speak of *)

\* the call of p has returned without an exception
Wrote(p) == pc[p] = "done" /\ exc[p] = "none"

\* the name the specification gives the output file of a call
NameOf(a) == "./" \o a.colormap \o "_" \o a.field \o ".pal"

\* the content of the output file of p
TheFile(p) == fs[NameOf(args[p])].data

IsKind(line, kind) == line.kind = kind

LinesOf(data, kind) == SelectSeq(data, LAMBDA line : IsKind(line, kind))

\* everything the call of p wrote, in order: what the file holds when the
\* call runs alone
OwnOutput(p) == f[p].buf

\* the spacing of the floats at the larger of |a| and |b|
Ulp(a, b) == Spacing(IF Abs(a) > Abs(b) THEN Abs(a) ELSE Abs(b), 1, 1)

\* the levels of p are computed and the call was given a valid range
ValidLevels(p) ==
    /\ pc[p] # "linspace"
    /\ args[p].min < args[p].max
    /\ args[p].nlevels >= 2

----------------------------------------------------------------------------
(* C1.  Every written file lists its Color lines in strictly decreasing     *)
(* level order: of two consecutive Color lines the earlier has the greater  *)
(* level.                                                                   *)
C1_ColorLinesStrictlyDecreasing ==
    \A p \in DOMAIN pc :
        Wrote(p) =>
            LET c == LinesOf(TheFile(p), "Color")
            IN  \A j \in 1..(Len(c) - 1) : c[j].level > c[j + 1].level

C3_UniqueLineLast ==
    \A p \in DOMAIN pc :
        (Wrote(p) /\ args[p].min < args[p].max) =>
            LET d == TheFile(p)
            IN  IF args[p].unique
                THEN /\ Len(LinesOf(d, "Unique")) = 1
                     /\ d[Len(d)] = UniqueLine
                ELSE /\ Len(LinesOf(d, "Unique")) = 0
                     /\ d[Len(d)].kind = "Color"

(* C4 as stated.  For min < max and nlevels >= 2 the levels are nlevels     *)
(* values, strictly increasing, from min to max, and consecutive levels     *)
(* differ by exactly step (the difference taken as the program would take   *)
(* it, in floating point).                                                  *)
C4_LevelsExact ==
    \A p \in DOMAIN pc :
        ValidLevels(p) =>
            LET lv == levels[p]
                n  == args[p].nlevels
            IN  /\ Len(lv) = n
                /\ lv[1] = args[p].min
                /\ lv[n] = args[p].max
                /\ \A j \in 1..(n - 1) :
                       /\ lv[j] < lv[j + 1]
                       /\ FSub(lv[j + 1], lv[j]) = step[p].val

(* C4 as amended.  For min < max and nlevels >= 2 the levels are nlevels    *)
(* values, the first equal to min and the last equal to max, and            *)
(* consecutive levels differ by step to within the rounding of the          *)
(* arithmetic, nlevels + 4 spacings of the floats at the larger of |min|    *)
(* and |max|; they are strictly increasing when step exceeds that.          *)
C4_LevelsWithinTolerance ==
    \A p \in DOMAIN pc :
        ValidLevels(p) =>
            LET lv  == levels[p]
                n   == args[p].nlevels
                tol == (n + 4) * Ulp(args[p].min, args[p].max)
            IN  /\ Len(lv) = n
                /\ lv[1] = args[p].min
                /\ lv[n] = args[p].max
                /\ ~step[p].nan
                /\ \A j \in 1..(n - 1) :
                       /\ Abs(lv[j + 1] - lv[j] - step[p].val) <= tol
                       /\ step[p].val > tol => lv[j] < lv[j + 1]

\* levels that rounding has moved: two of them equal
C4_Witness ==
    /\ ValidLevels(1)
    /\ \E j \in 1..(Len(levels[1]) - 1) : levels[1][j] = levels[1][j + 1]

(* C5.  A call with min >= max fails and does not complete a write of the   *)
(* output file.  (Stated for the calls whose nlevels is at least 2, where   *)
(* the range alone is invalid.)                                             *)
C5_InvalidRangeFails ==
    \A p \in DOMAIN pc :
        (pc[p] = "done" /\ args[p].min >= args[p].max /\ args[p].nlevels >= 2)
            => /\ exc[p] # "none"
               /\ f[p].name = "none"

(* C6.  A call with nlevels < 2 is rejected: none ends in success with a    *)
(* written file.  (Stated for the calls given a range with min < max,       *)
(* where the level count alone is invalid.)                                 *)
C6_InvalidLevelCountFails ==
    \A p \in DOMAIN pc :
        (pc[p] = "done" /\ args[p].nlevels < 2 /\ args[p].min < args[p].max)
            => exc[p] # "none"

(* C7 as stated.  A call whose colormap is not registered fails with the    *)
(* lookup error (UnknownGradient: the KeyError of the registry).            *)
C7_UnknownGradientError ==
    \A p \in DOMAIN pc :
        (pc[p] = "done" /\ args[p].colormap \notin Registered)
            => exc[p] = "KeyError"

(* C7 as amended.  A call whose colormap is not registered fails before the *)
(* output file is opened, so no file is created, truncated or modified:     *)
(* with the lookup error when nlevels >= 0, and with the ValueError of the  *)
(* level computation, which comes first, when nlevels < 0.                  *)
C7_UnknownGradientLeavesFiles ==
    [][\A p \in DOMAIN pc :
          args[p].colormap \notin Registered =>
              /\ fs' = fs
              /\ pc'[p] \in {"linspace", "lookup", "done"}
              /\ pc'[p] = "done" =>
                     exc'[p] = IF args[p].nlevels < 0 THEN "ValueError" ELSE "KeyError"]_vars

C7_Witness ==
    /\ pc[1] = "done"
    /\ exc[1] = "KeyError"
    /\ args[1].colormap = "NoSuchMap"
    /\ fs[NameOf(args[1])] = OldFile

(* C8 as stated.  Two calls whose (colormap, field) pairs differ write to   *)
(* different files, and each file ends with what its own call wrote.        *)
C8_DistinctPairsDistinctFiles ==
    \A p, q \in DOMAIN pc :
        (/\ Wrote(p) /\ Wrote(q)
         /\ <<args[p].colormap, args[p].field>> # <<args[q].colormap, args[q].field>>)
            => /\ NameOf(args[p]) # NameOf(args[q])
               /\ TheFile(p) = OwnOutput(p)

(* C8 as amended.  Two calls whose file names <colormap>_<field>.pal differ *)
(* write to different files, and in every interleaving each file ends with  *)
(* exactly what its own call wrote; two different (colormap, field) pairs   *)
(* can give the same name.                                                  *)
C8_DistinctNamesIsolated ==
    \A p, q \in DOMAIN pc :
        (Wrote(p) /\ Wrote(q) /\ NameOf(args[p]) # NameOf(args[q]))
            => /\ TheFile(p) = OwnOutput(p)
               /\ f[p].name = NameOf(args[p])

C8_Witness ==
    /\ DOMAIN pc = {1, 2}
    /\ Wrote(1) /\ Wrote(2)
    /\ NameOf(args[1]) # NameOf(args[2])
    /\ TheFile(1) = OwnOutput(1)
    /\ TheFile(2) = OwnOutput(2)

(* C9.  When two calls that write the same file run at the same time, the   *)
(* file ends, once both have returned, with the complete output of one of   *)
(* them, never with a mixture.  (Stated for two calls with the same         *)
(* colormap and field, whose lines have the same lengths, so that an offset *)
(* in lines is the same offset in bytes.)                                   *)
C9_LastWriterWins ==
    \A p, q \in DOMAIN pc :
        (/\ Wrote(p) /\ Wrote(q)
         /\ args[p] # args[q]
         /\ args[p].colormap = args[q].colormap
         /\ args[p].field = args[q].field
         /\ NameOf(args[p]) = NameOf(args[q]))
            => TheFile(p) \in {OwnOutput(p), OwnOutput(q)}

(* C10.  For nlevels >= 2 the written file has exactly nlevels Color lines; *)
(* the line of levels[i] carries the colormap sampled at i / (nlevels - 1), *)
(* each channel times 255 cut down to the integer below it, within 0..255;  *)
(* the top line pairs max with the sample at 1, the bottom min with that    *)
(* at 0.                                                                    *)
C10_ColorLinesPairLevelsAndSamples ==
    \A p \in DOMAIN pc :
        (Wrote(p) /\ args[p].nlevels >= 2) =>
            LET n == args[p].nlevels
                c == LinesOf(TheFile(p), "Color")
                Floor255(line, ch) ==
                    /\ <<line.r, line.g, line.b>> \in (0..255) \X (0..255) \X (0..255)
                    /\ line.r * One <= FMul(ch[1], 255 * One)
                    /\ FMul(ch[1], 255 * One) < (line.r + 1) * One
                    /\ line.g * One <= FMul(ch[2], 255 * One)
                    /\ FMul(ch[2], 255 * One) < (line.g + 1) * One
                    /\ line.b * One <= FMul(ch[3], 255 * One)
                    /\ FMul(ch[3], 255 * One) < (line.b + 1) * One
            IN  /\ Len(c) = n
                /\ \A i \in 0..(n - 1) :
                       /\ c[n - i].level = Fmt2(levels[p][i + 1])
                       /\ Floor255(c[n - i],
                                   Sampled(args[p].colormap, RoundRat(i * One, n - 1)))
                /\ c[1].level = Fmt2(args[p].max)
                /\ Floor255(c[1], Sampled(args[p].colormap, One))
                /\ c[n].level = Fmt2(args[p].min)
                /\ Floor255(c[n], Sampled(args[p].colormap, 0))

\* a written line with a channel whose product with 255 lies half or more
\* above the integer printed
C10_Witness ==
    /\ Wrote(1)
    /\ args[1].nlevels >= 3
    /\ args[1].min < args[1].max
    /\ LET c    == LinesOf(TheFile(1), "Color")
           n    == args[1].nlevels
           prod == FMul(Sampled(args[1].colormap, RoundRat(One, n - 1))[1], 255 * One)
       IN  /\ Len(c) = n
           /\ 2 * (prod % One) >= One
           /\ c[n - 1].r = prod \div One
           /\ c[n - 1].level = Fmt2(levels[1][2])

====
